---- MODULE Spec2Model ----
(***************************************************************************)
(* Model of redirector's HostsManager (src/redirector/hostsmanager.py):    *)
(* the in-memory hostname -> IP table, the managed block of /etc/hosts and *)
(* the temp-file based rewrite of that file.                               *)
(*                                                                         *)
(* Text is modelled character by character: a string is a sequence of      *)
(* one-character strings, the file is its content, and a list of lines is  *)
(* a sequence of such strings.  The one exception is the wording of the    *)
(* two markers after "# ", which is a single symbol: the program compares  *)
(* marker lines as wholes and, when it parses one as an entry line, takes  *)
(* everything after the first run of spaces as one group.                  *)
(***************************************************************************)
EXTENDS Naturals, Sequences, FiniteSets

VARIABLES
    entries,      \* self._entries: ordered dict, a sequence of [hostname, ip]
    etc_hosts,    \* content of /etc/hosts
    hosts_stat,   \* mode, uid and gid of /etc/hosts
    pc,           \* position inside _rewrite_hosts_file, "idle" between calls
    call,         \* the call in progress or, when idle, the last one and its outcome
    lines,        \* _rewrite_hosts_file's argument: the lines to install (<<>> outside it)
    meta,         \* mode, uid, gid captured by os.stat at the start of the rewrite
    tmp,          \* the temporary file of the rewrite in progress, or NoFile
    orphans,      \* temporary files left behind by failed rewrites
    calls,        \* number of calls made to the public methods so far
    entries0,     \* self._entries when the current/last call started
    hosts0,       \* content of /etc/hosts when the current/last call started
    hosts_init,   \* content of /etc/hosts when the HostsManager was constructed
    edits         \* number of writes to /etc/hosts made by other processes so far

vars == <<entries, etc_hosts, hosts_stat, pc, call, lines, meta, tmp, orphans,
          calls, entries0, hosts0, hosts_init, edits>>

----------------------------------------------------------------------------
(* Bounds *)

\* number of public-method calls in one run
MaxCalls == 3
\* number of distinct canonical hostnames the caller uses
NumHosts == 2
\* number of writes to /etc/hosts by other processes in a run
MaxEdits == 1

----------------------------------------------------------------------------
(* Constants of the program *)

\* "# BEGIN REDIRECTOR MANAGED BLOCK\n"
BEGIN_MARKER == <<"#", " ", "BEGIN REDIRECTOR MANAGED BLOCK", "\n">>

\* "# END REDIRECTOR MANAGED BLOCK\n"
END_MARKER == <<"#", " ", "END REDIRECTOR MANAGED BLOCK", "\n">>

\* "no index" (Python's None); list indices are 1-based here
None == 0

NoFile == [exists |-> FALSE]

----------------------------------------------------------------------------
(* Strings and lists *)

RECURSIVE Concat(_)
\* "".join(lines)
Concat(ls) == IF ls = <<>> THEN <<>> ELSE Head(ls) \o Concat(Tail(ls))

RECURSIVE SplitFrom(_, _, _)
\* the lines of s from position start on, position i being the next to read
SplitFrom(s, start, i) ==
    IF i > Len(s) THEN (IF start > Len(s) THEN <<>> ELSE <<SubSeq(s, start, Len(s))>>)
    ELSE IF s[i] = "\n" THEN <<SubSeq(s, start, i)>> \o SplitFrom(s, i + 1, i + 1)
    ELSE SplitFrom(s, start, i + 1)

\* str.splitlines(True): the lines with their terminators kept
splitlines(s) == SplitFrom(s, 1, 1)

\* str.endswith("\n")
EndsWithNewline(s) == Len(s) > 0 /\ s[Len(s)] = "\n"

Spaces(n) == [i \in 1..n |-> " "]

\* the string left as it is, whatever the width
ljust_unpadded(s, width) == s

\* str.ljust(width)
ljust(s, width) == IF Len(s) >= width THEN s ELSE s \o Spaces(width - Len(s))

Max(S) == CHOOSE m \in S : \A x \in S : x <= m

----------------------------------------------------------------------------
(* The ordered dict self._entries *)

Keys(d) == {d[i].hostname : i \in 1..Len(d)}

HasKey(d, h) == h \in Keys(d)

Get(d, h) == d[CHOOSE i \in 1..Len(d) : d[i].hostname = h].ip

\* d[h] = ip: an existing key keeps its position, a new key goes last
DictSet(d, h, ip) ==
    IF HasKey(d, h)
    THEN [i \in 1..Len(d) |-> IF d[i].hostname = h THEN [hostname |-> h, ip |-> ip] ELSE d[i]]
    ELSE Append(d, [hostname |-> h, ip |-> ip])

\* del d[h] for every h in S: the other keys keep their relative order
DictDelAll(d, S) == SelectSeq(d, LAMBDA e : e.hostname \notin S)

----------------------------------------------------------------------------
(* The pure parts of HostsManager *)

\* a block generated without its END line
generate_redirector_block_content_no_end(d) ==
    IF d = <<>>
    THEN [error |-> "ValueError", block |-> <<>>]
    ELSE LET padding == Max({Len(d[i].ip) : i \in 1..Len(d)}) + 2
         IN  [error |-> "ok",
              block |-> <<BEGIN_MARKER>>
                        \o [i \in 1..Len(d) |-> d[i].ip \o Spaces(padding - Len(d[i].ip))
                                                 \o d[i].hostname \o <<"\n">>]]

\* _generate_redirector_block_content: max() of no value raises ValueError
generate_redirector_block_content(d) ==
    IF d = <<>>
    THEN [error |-> "ValueError", block |-> <<>>]
    ELSE LET padding == Max({Len(d[i].ip) : i \in 1..Len(d)}) + 2
         IN  [error |-> "ok",
              block |-> <<BEGIN_MARKER>>
                        \o [i \in 1..Len(d) |-> ljust(d[i].ip, padding) \o d[i].hostname \o <<"\n">>]
                        \o <<END_MARKER>>]

\* the index the marker loop ends with: that of the last line equal to m
MarkerIndex(ls, m) ==
    LET S == {i \in 1..Len(ls) : ls[i] = m}
    IN  IF S = {} THEN None ELSE Max(S)

\* check_markers without its third check
check_markers_no_order(begin_index, end_index) ==
    IF begin_index # None /\ end_index = None THEN "OnlyBeginMarker"
    ELSE IF begin_index = None /\ end_index # None THEN "OnlyEndMarker"
    ELSE "ok"

\* the three checks of _read_hosts_file: the HostsManagerError raised, or "ok"
check_markers(begin_index, end_index) ==
    IF begin_index # None /\ end_index = None THEN "OnlyBeginMarker"
    ELSE IF begin_index = None /\ end_index # None THEN "OnlyEndMarker"
    ELSE IF begin_index # None /\ end_index # None /\ begin_index > end_index
         THEN "EndBeforeBegin"
    ELSE "ok"

\* _read_hosts_file on a file with the given content
read_hosts_file(content) ==
    LET file_lines  == splitlines(content)
        begin_index == MarkerIndex(file_lines, BEGIN_MARKER)
        end_index   == MarkerIndex(file_lines, END_MARKER)
    IN  [error |-> check_markers(begin_index, end_index),
         file_lines |-> file_lines,
         begin_index |-> begin_index,
         end_index |-> end_index]

\* no marker found: the original lines, the last one terminated, then the block
\* (original_lines is not empty)
append_block(original_lines, block) ==
    LET n == Len(original_lines)
    IN  (IF EndsWithNewline(original_lines[n])
         THEN original_lines
         ELSE [original_lines EXCEPT ![n] = @ \o <<"\n">>])
        \o block

\* replace_block forgetting the lines after END
replace_block_no_suffix(original_lines, begin_index, end_index, block) ==
    SubSeq(original_lines, 1, begin_index - 1) \o block

\* markers found: the lines before BEGIN, the block, the lines after END
replace_block(original_lines, begin_index, end_index, block) ==
    SubSeq(original_lines, 1, begin_index - 1)
    \o block
    \o SubSeq(original_lines, end_index + 1, Len(original_lines))

\* _upsert_redirector_block up to its call of _rewrite_hosts_file: the lines
\* it passes on, or the exception raised before
upsert_redirector_block(content, d) ==
    LET r == read_hosts_file(content)
        original_lines == r.file_lines
        g == generate_redirector_block_content(d)
    IN  IF r.error # "ok" THEN [error |-> r.error, final_lines |-> <<>>]
        ELSE IF r.begin_index = None /\ r.end_index = None
        THEN \* final_lines[len(final_lines) - 1] of an empty list
             IF original_lines = <<>> THEN [error |-> "IndexError", final_lines |-> <<>>]
             ELSE IF g.error # "ok" THEN [error |-> g.error, final_lines |-> <<>>]
             ELSE [error |-> "ok", final_lines |-> append_block(original_lines, g.block)]
        ELSE IF g.error # "ok" THEN [error |-> g.error, final_lines |-> <<>>]
             ELSE [error |-> "ok",
                   final_lines |-> replace_block(original_lines, r.begin_index,
                                                 r.end_index, g.block)]

RECURSIVE CountWhile(_, _)
\* number of leading characters of s that are in (sp = TRUE) or not in
\* (sp = FALSE) the set {" "}
CountWhile(s, sp) ==
    IF s # <<>> /\ ((Head(s) = " ") = sp) THEN 1 + CountWhile(Tail(s), sp) ELSE 0

\* re.search("^([^ ]+) +(.+)\n$", line) and its two groups
ParseLine(line) ==
    LET n    == CountWhile(line, FALSE)
        k    == CountWhile(SubSeq(line, n + 1, Len(line)), TRUE)
        rest == SubSeq(line, n + k + 1, Len(line))
        body == SubSeq(rest, 1, Len(rest) - 1)
        fail == [matched |-> FALSE, ip |-> <<>>, hostname |-> <<>>]
    IN  IF n = 0 \/ k = 0 \/ ~EndsWithNewline(line) THEN fail
        ELSE IF \E i \in 1..Len(body) : body[i] = "\n" THEN fail
        ELSE IF body # <<>>
             THEN [matched |-> TRUE, ip |-> SubSeq(line, 1, n), hostname |-> body]
        ELSE IF k >= 2
             THEN [matched |-> TRUE, ip |-> SubSeq(line, 1, n), hostname |-> <<" ">>]
        ELSE fail

RECURSIVE ParseLines(_, _)
\* the loop of load_persisted_entries over the lines between the markers:
\* entries are added line by line until a line fails to parse
ParseLines(d, ls) ==
    IF ls = <<>> THEN [error |-> "ok", entries |-> d]
    ELSE LET res == ParseLine(Head(ls))
         IN  IF res.matched
             THEN ParseLines(DictSet(d, res.hostname, res.ip), Tail(ls))
             ELSE [error |-> "ParseError", entries |-> d]

\* load_entries emptying the table before it reads the file
load_entries_reset(d, content) ==
    LET r == read_hosts_file(content)
    IN  IF r.error # "ok" THEN [error |-> r.error, entries |-> <<>>]
        ELSE IF r.begin_index # None /\ r.end_index # None
        THEN ParseLines(<<>>, SubSeq(r.file_lines, r.begin_index + 1, r.end_index - 1))
        ELSE [error |-> "ok", entries |-> <<>>]

\* load_persisted_entries on table d and a file with the given content
load_entries(d, content) ==
    LET r == read_hosts_file(content)
    IN  IF r.error # "ok" THEN [error |-> r.error, entries |-> d]
        ELSE IF r.begin_index # None /\ r.end_index # None
        THEN ParseLines(d, SubSeq(r.file_lines, r.begin_index + 1, r.end_index - 1))
        ELSE [error |-> "ok", entries |-> d]

\* cut_block starting the second slice at end_index
cut_block_keep_end(original_lines, begin_index, end_index) ==
    SubSeq(original_lines, 1, begin_index - 1)
    \o SubSeq(original_lines, end_index, Len(original_lines))

\* the lines before BEGIN followed by the lines after END
cut_block(original_lines, begin_index, end_index) ==
    SubSeq(original_lines, 1, begin_index - 1)
    \o SubSeq(original_lines, end_index + 1, Len(original_lines))

\* remove_redirector_block up to its call of _rewrite_hosts_file
remove_block_lines(content) ==
    LET r == read_hosts_file(content)
    IN  IF r.error # "ok" THEN [error |-> r.error, rewrite |-> FALSE, final_lines |-> <<>>]
        ELSE IF r.begin_index # None /\ r.end_index # None
        THEN [error |-> "ok", rewrite |-> TRUE,
              final_lines |-> cut_block(r.file_lines, r.begin_index, r.end_index)]
        ELSE [error |-> "ok", rewrite |-> FALSE, final_lines |-> <<>>]

\* entry_changed not looking at the table
entry_changed_always(d, local_host, backend_ip) == TRUE

\* the test of upsert_entry: the entry does not exist or has changed
entry_changed(d, local_host, backend_ip) ==
    ~HasKey(d, local_host) \/ Get(d, local_host) # backend_ip

\* the difference taken the wrong way round
unexpected_hostnames_reversed(d, expected_hostnames) == expected_hostnames \ Keys(d)

\* set(self._entries.keys()).difference(set(expected_hostnames))
unexpected_hostnames(d, expected_hostnames) == Keys(d) \ expected_hostnames

----------------------------------------------------------------------------
(* Inputs *)

IP1 == <<"1",".","1",".","1",".","1">>
IP2 == <<"1","0",".","0",".","0",".","5">>

\* what socket.gethostbyname can return
IPs == {IP1, IP2}

\* socket.gethostbyname raising socket.gaierror
Unresolved == <<>>

HostnamePool == << <<"a">>, <<"b">>, <<"c">>, <<"d">> >>

\* the canonical hostnames the caller passes
Hostnames == {HostnamePool[i] : i \in 1..NumHosts}

PrefixLine == <<"p","\n">>
SuffixLine == <<"s","\n">>
Unterminated == <<"s">>

\* the contents /etc/hosts can have when the HostsManager is constructed
InitialFiles ==
    { <<>>,
      PrefixLine,
      PrefixLine \o Unterminated,
      \* a block written by an earlier run
      PrefixLine \o BEGIN_MARKER \o IP1 \o <<" "," ">> \o HostnamePool[1] \o <<"\n">>
                 \o END_MARKER \o SuffixLine,
      \* a hand-edited block followed by an unterminated line
      BEGIN_MARKER \o IP2 \o <<" ">> \o HostnamePool[2] \o <<"\n">> \o END_MARKER \o Unterminated,
      \* a block whose second line is malformed
      BEGIN_MARKER \o IP2 \o <<" "," ">> \o HostnamePool[1] \o <<"\n">>
                   \o <<"?","\n">> \o END_MARKER,
      \* corrupt files
      PrefixLine \o BEGIN_MARKER \o SuffixLine,
      END_MARKER \o SuffixLine,
      END_MARKER \o PrefixLine \o BEGIN_MARKER }

\* mode, owner and group of /etc/hosts when the HostsManager is constructed
InitialStat == [mode |-> "0644", uid |-> "root", gid |-> "root"]

NoCall == [op |-> "none", local_host |-> <<>>, backend_ip |-> <<>>, expected |-> {},
           result |-> "ok", upserts |-> 0, replaces |-> 0]

NoMeta == [mode |-> "", uid |-> "", gid |-> ""]

----------------------------------------------------------------------------
(* The state machine *)

Init ==
    /\ entries = <<>>
    /\ etc_hosts \in InitialFiles
    /\ hosts_stat = InitialStat
    /\ pc = "idle"
    /\ call = NoCall
    /\ lines = <<>>
    /\ meta = NoMeta
    /\ tmp = NoFile
    /\ orphans = 0
    /\ calls = 0
    /\ entries0 = <<>>
    /\ hosts0 = etc_hosts
    /\ hosts_init = etc_hosts
    /\ edits = 0

\* a public method is entered
Enter ==
    /\ pc = "idle"
    /\ calls < MaxCalls
    /\ calls' = calls + 1
    /\ entries0' = entries
    /\ hosts0' = etc_hosts
    /\ UNCHANGED <<hosts_init, edits>>

\* the call c ends without a rewrite, with the given result
Return(c, result) ==
    /\ call' = [c EXCEPT !.result = result]
    /\ pc' = "idle"
    /\ lines' = <<>>
    /\ meta' = NoMeta

\* _rewrite_hosts_file(final_lines) is entered: os.stat of /etc/hosts
EnterRewrite(c, final_lines) ==
    /\ call' = [c EXCEPT !.result = "running"]
    /\ pc' = "mkstemp"
    /\ lines' = final_lines
    /\ meta' = hosts_stat

\* upsert_entry(local_host, backend_host), backend_ip being what
\* gethostbyname(backend_host) returns
upsert_entry(local_host, backend_ip) ==
    LET c == [NoCall EXCEPT !.op = "upsert_entry", !.local_host = local_host,
                            !.backend_ip = backend_ip]
    IN
    /\ Enter
    /\ UNCHANGED <<etc_hosts, hosts_stat, tmp, orphans>>
    /\ IF backend_ip = Unresolved
       THEN /\ UNCHANGED entries
            /\ Return(c, "gaierror")
       ELSE IF entry_changed(entries, local_host, backend_ip)
       THEN LET d == DictSet(entries, local_host, backend_ip)
                u == upsert_redirector_block(etc_hosts, d)
            IN  /\ entries' = d
                /\ IF u.error # "ok"
                   THEN Return([c EXCEPT !.upserts = 1], u.error)
                   ELSE EnterRewrite([c EXCEPT !.upserts = 1], u.final_lines)
       ELSE /\ UNCHANGED entries
            /\ Return(c, "ok")

\* remove_unexpected_entries(expected_hostnames)
remove_unexpected_entries(expected_hostnames) ==
    LET c == [NoCall EXCEPT !.op = "remove_unexpected_entries",
                            !.expected = expected_hostnames]
        unexpected == unexpected_hostnames(entries, expected_hostnames)
    IN
    /\ Enter
    /\ UNCHANGED <<etc_hosts, hosts_stat, tmp, orphans>>
    /\ IF unexpected # {}
       THEN LET d == DictDelAll(entries, unexpected)
                u == upsert_redirector_block(etc_hosts, d)
            IN  /\ entries' = d
                /\ IF u.error # "ok"
                   THEN Return([c EXCEPT !.upserts = 1], u.error)
                   ELSE EnterRewrite([c EXCEPT !.upserts = 1], u.final_lines)
       ELSE /\ UNCHANGED entries
            /\ Return(c, "ok")

\* a removal of the block that also empties the table
remove_redirector_block_clearing ==
    LET c == [NoCall EXCEPT !.op = "remove_redirector_block"]
        r == remove_block_lines(etc_hosts)
    IN
    /\ Enter
    /\ entries' = <<>>
    /\ UNCHANGED <<etc_hosts, hosts_stat, tmp, orphans>>
    /\ IF r.error # "ok" THEN Return(c, r.error)
       ELSE IF r.rewrite THEN EnterRewrite(c, r.final_lines)
       ELSE Return(c, "ok")

\* remove_redirector_block()
remove_redirector_block ==
    LET c == [NoCall EXCEPT !.op = "remove_redirector_block"]
        r == remove_block_lines(etc_hosts)
    IN
    /\ Enter
    /\ UNCHANGED <<entries, etc_hosts, hosts_stat, tmp, orphans>>
    /\ IF r.error # "ok" THEN Return(c, r.error)
       ELSE IF r.rewrite THEN EnterRewrite(c, r.final_lines)
       ELSE Return(c, "ok")

\* load_persisted_entries()
load_persisted_entries ==
    LET c == [NoCall EXCEPT !.op = "load_persisted_entries"]
        r == load_entries(entries, etc_hosts)
    IN
    /\ Enter
    /\ UNCHANGED <<etc_hosts, hosts_stat, tmp, orphans>>
    /\ entries' = r.entries
    /\ Return(c, r.error)

\* tempfile.mkstemp: an empty file readable and writable by its creator only
Mkstemp ==
    /\ pc = "mkstemp"
    /\ tmp' = [exists |-> TRUE, content |-> <<>>, mode |-> "0600",
               uid |-> "euid", gid |-> "egid"]
    /\ pc' = "write"
    /\ UNCHANGED <<entries, etc_hosts, hosts_stat, call, lines, meta, orphans,
                   calls, entries0, hosts0, hosts_init, edits>>

\* the content written to /etc/hosts itself instead of the temporary file
WriteTmp_in_place ==
    /\ pc = "write"
    /\ etc_hosts' = Concat(lines)
    /\ pc' = "chmod"
    /\ UNCHANGED <<entries, tmp, hosts_stat, call, lines, meta, orphans,
                   calls, entries0, hosts0, hosts_init, edits>>

\* f.write("".join(lines)) and the close of the temporary file
WriteTmp ==
    /\ pc = "write"
    /\ tmp' = [tmp EXCEPT !.content = Concat(lines)]
    /\ pc' = "chmod"
    /\ UNCHANGED <<entries, etc_hosts, hosts_stat, call, lines, meta, orphans,
                   calls, entries0, hosts0, hosts_init, edits>>

\* a rewrite that leaves the temporary file with the mode mkstemp gave it
Chmod_skipped ==
    /\ pc = "chmod"
    /\ pc' = "chown"
    /\ UNCHANGED <<entries, etc_hosts, hosts_stat, call, lines, meta, tmp, orphans,
                   calls, entries0, hosts0, hosts_init, edits>>

\* os.chmod(tmp_path, mode)
Chmod ==
    /\ pc = "chmod"
    /\ tmp' = [tmp EXCEPT !.mode = meta.mode]
    /\ pc' = "chown"
    /\ UNCHANGED <<entries, etc_hosts, hosts_stat, call, lines, meta, orphans,
                   calls, entries0, hosts0, hosts_init, edits>>

\* os.chown(tmp_path, uid, gid) succeeds
Chown ==
    /\ pc = "chown"
    /\ tmp' = [tmp EXCEPT !.uid = meta.uid, !.gid = meta.gid]
    /\ pc' = "replace"
    /\ UNCHANGED <<entries, etc_hosts, hosts_stat, call, lines, meta, orphans,
                   calls, entries0, hosts0, hosts_init, edits>>

\* os.chown raises PermissionError: HostsManagerError is raised and the
\* temporary file stays where it is
ChownDenied ==
    /\ pc = "chown"
    /\ call' = [call EXCEPT !.result = "ChownError"]
    /\ pc' = "idle"
    /\ tmp' = NoFile
    /\ orphans' = orphans + 1
    /\ lines' = <<>>
    /\ meta' = NoMeta
    /\ UNCHANGED <<entries, etc_hosts, hosts_stat, calls, entries0, hosts0, hosts_init, edits>>

\* an install that gives way to a file changed since it was read
Replace_keeps_newer ==
    /\ pc = "replace"
    /\ etc_hosts' = IF etc_hosts = hosts0 THEN tmp.content ELSE etc_hosts
    /\ hosts_stat' = [mode |-> tmp.mode, uid |-> tmp.uid, gid |-> tmp.gid]
    /\ tmp' = NoFile
    /\ call' = [call EXCEPT !.result = "ok", !.replaces = @ + 1]
    /\ pc' = "idle"
    /\ lines' = <<>>
    /\ meta' = NoMeta
    /\ UNCHANGED <<entries, orphans, calls, entries0, hosts0, hosts_init, edits>>

\* os.replace(tmp_path, "/etc/hosts")
Replace ==
    /\ pc = "replace"
    /\ etc_hosts' = tmp.content
    /\ hosts_stat' = [mode |-> tmp.mode, uid |-> tmp.uid, gid |-> tmp.gid]
    /\ tmp' = NoFile
    /\ call' = [call EXCEPT !.result = "ok", !.replaces = @ + 1]
    /\ pc' = "idle"
    /\ lines' = <<>>
    /\ meta' = NoMeta
    /\ UNCHANGED <<entries, orphans, calls, entries0, hosts0, hosts_init, edits>>

\* os.replace raises OSError: nothing is installed and the temporary file stays
ReplaceFails ==
    /\ pc = "replace"
    /\ call' = [call EXCEPT !.result = "OSError"]
    /\ pc' = "idle"
    /\ tmp' = NoFile
    /\ orphans' = orphans + 1
    /\ lines' = <<>>
    /\ meta' = NoMeta
    /\ UNCHANGED <<entries, etc_hosts, hosts_stat, calls, entries0, hosts0, hosts_init, edits>>

Next ==
    \/ \E local_host \in Hostnames, backend_ip \in IPs \cup {Unresolved} :
           upsert_entry(local_host, backend_ip)
    \/ \E expected_hostnames \in SUBSET Hostnames :
           remove_unexpected_entries(expected_hostnames)
    \/ remove_redirector_block
    \/ load_persisted_entries
    \/ Mkstemp
    \/ WriteTmp
    \/ Chmod
    \/ Chown
    \/ ChownDenied
    \/ Replace
    \/ ReplaceFails

Spec == Init /\ [][Next]_vars

----------------------------------------------------------------------------
(* The engine in a run where every call succeeds: load_persisted_entries once
   on the fresh engine, then upsert_entry and remove_unexpected_entries, no
   call raising and no step of a rewrite refused *)

\* the call entered in this step raises nothing
Succeeds == call'.result \in {"ok", "running"}

first_load_persisted_entries ==
    /\ calls = 0
    /\ load_persisted_entries
    /\ Succeeds

successful_upsert_entry(local_host, backend_ip) ==
    /\ calls >= 1
    /\ upsert_entry(local_host, backend_ip)
    /\ Succeeds

successful_remove_unexpected_entries(expected_hostnames) ==
    /\ calls >= 1
    /\ remove_unexpected_entries(expected_hostnames)
    /\ Succeeds

NextSteady ==
    \/ first_load_persisted_entries
    \/ \E local_host \in Hostnames, backend_ip \in IPs :
           successful_upsert_entry(local_host, backend_ip)
    \/ \E expected_hostnames \in SUBSET Hostnames :
           successful_remove_unexpected_entries(expected_hostnames)
    \/ Mkstemp
    \/ WriteTmp
    \/ Chmod
    \/ Chown
    \/ Replace

SpecSteady == Init /\ [][NextSteady]_vars

----------------------------------------------------------------------------
(* The engine next to another process that writes /etc/hosts: the engine
   takes no lock, so the other process may write between the read of a call
   and the os.replace that ends it *)

\* the line the other process adds
ExternalLine == <<"x", "\n">>

\* the other process adds its line at the start or at the end of /etc/hosts
\* while a rewrite of the engine is between its read and its os.replace
ExternalWrite ==
    /\ pc # "idle"
    /\ edits < MaxEdits
    /\ edits' = edits + 1
    /\ \/ etc_hosts' = ExternalLine \o etc_hosts
       \/ etc_hosts' = (IF etc_hosts = <<>> \/ EndsWithNewline(etc_hosts)
                        THEN etc_hosts ELSE etc_hosts \o <<"\n">>) \o ExternalLine
    /\ UNCHANGED <<entries, hosts_stat, pc, call, lines, meta, tmp, orphans,
                   calls, entries0, hosts0, hosts_init>>

\* the calls of the engine and the steps of rewrites that the system lets
\* through, next to the writes of the other process
NextExt ==
    \/ \E local_host \in Hostnames, backend_ip \in IPs \cup {Unresolved} :
           upsert_entry(local_host, backend_ip)
    \/ \E expected_hostnames \in SUBSET Hostnames :
           remove_unexpected_entries(expected_hostnames)
    \/ remove_redirector_block
    \/ load_persisted_entries
    \/ Mkstemp
    \/ WriteTmp
    \/ Chmod
    \/ Chown
    \/ Replace
    \/ ExternalWrite

SpecExt == Init /\ [][NextExt]_vars

----------------------------------------------------------------------------
(* What an observer of the file sees *)

\* the file as its reader sees it: its lines, where the sentinels are and,
\* when there is exactly one BEGIN line before exactly one END line, the
\* lines before, between and after them
View(content) ==
    LET ls == splitlines(content)
        B  == {i \in 1..Len(ls) : ls[i] = BEGIN_MARKER}
        E  == {i \in 1..Len(ls) : ls[i] = END_MARKER}
        one == Cardinality(B) = 1 /\ Cardinality(E) = 1
        b  == CHOOSE i \in B : TRUE
        e  == CHOOSE i \in E : TRUE
        block == one /\ b < e
    IN  [lines        |-> ls,
         no_sentinels |-> B = {} /\ E = {},
         one_kind     |-> (B = {}) # (E = {}),
         misordered   |-> one /\ b > e,
         has_block    |-> block,
         prefix       |-> IF block THEN SubSeq(ls, 1, b - 1) ELSE <<>>,
         entry_lines  |-> IF block THEN SubSeq(ls, b + 1, e - 1) ELSE <<>>,
         suffix       |-> IF block THEN SubSeq(ls, e + 1, Len(ls)) ELSE <<>>,
         outside      |-> IF block THEN SubSeq(ls, 1, b - 1) \o SubSeq(ls, e + 1, Len(ls))
                          ELSE ls]

NoSentinels(content) == View(content).no_sentinels

\* exactly one BEGIN line, exactly one END line, BEGIN first
HasBlock(content) == View(content).has_block

\* exactly one of the two kinds of sentinel is in the file
OneSentinelKind(content) == View(content).one_kind

\* one BEGIN line and one END line, BEGIN after END
Misordered(content) == View(content).misordered

\* the lines strictly between the sentinels of a file that has a block
EntryLinesOf(content) == View(content).entry_lines

\* the lines outside the managed block
Outside(content) == View(content).outside

\* ls with its last line terminated
Terminated(ls) ==
    IF ls = <<>> \/ EndsWithNewline(ls[Len(ls)]) THEN ls
    ELSE [ls EXCEPT ![Len(ls)] = @ \o <<"\n">>]

\* the previous table restricted to the hostnames in E, order kept
Restrict(d, E) == SelectSeq(d, LAMBDA e : e.hostname \in E)

Idle == pc = "idle"

\* the last call was to one of the four public methods and has returned
Returned(op) == Idle /\ call.op = op

\* the lines before and after the block are the same in views v and w
SameFrame(v, w) ==
    /\ v.outside = w.outside
    /\ (v.has_block /\ w.has_block) => (v.prefix = w.prefix /\ v.suffix = w.suffix)

----------------------------------------------------------------------------
(* C1: write only on change *)

\* the last call is upsert_entry(h, addr) with addr resolved to the IP the
\* table already had for h
UpsertOfStoredIp ==
    /\ call.op = "upsert_entry"
    /\ call.backend_ip \in IPs
    /\ HasKey(entries0, call.local_host)
    /\ Get(entries0, call.local_host) = call.backend_ip

C1_NoWriteWhenUnchanged ==
    UpsertOfStoredIp =>
        /\ Idle
        /\ call.result = "ok"
        /\ call.upserts = 0
        /\ call.replaces = 0
        /\ tmp = NoFile
        /\ entries = entries0
        /\ etc_hosts = hosts0

\* a step that enters upsert_entry(h, addr) right after a call of
\* upsert_entry(h, addr) that resolved to the same IP and that started from a
\* table where h was absent or had another IP: the first call invoked the
\* rewrite once (and replaced the file once if it succeeded), the second does not
C1_SecondCallStep ==
    (/\ Returned("upsert_entry")
     /\ call.backend_ip \in IPs
     /\ ~UpsertOfStoredIp
     /\ calls' = calls + 1
     /\ call'.op = "upsert_entry"
     /\ call'.local_host = call.local_host
     /\ call'.backend_ip = call.backend_ip)
    => /\ call.upserts + call'.upserts = 1
       /\ call.result = "ok" => call.replaces + call'.replaces = 1
       /\ pc' = "idle"
       /\ entries' = entries
       /\ etc_hosts' = etc_hosts

\* C1: an upsert_entry whose resolved IP is the one the table already has for
\* the hostname invokes no rewrite and leaves the table and the file as they
\* were; two consecutive upsert_entry calls for the same hostname resolving
\* to the same IP, the first one changing the table, invoke the rewrite of
\* the block exactly once in total.
C1_WriteOnlyOnChange == []C1_NoWriteWhenUnchanged /\ [][C1_SecondCallStep]_vars

C1_Witness ==
    /\ Returned("upsert_entry")
    /\ UpsertOfStoredIp
    /\ call.upserts = 0
    /\ NoSentinels(hosts_init)
    /\ HasBlock(etc_hosts)
    /\ etc_hosts = hosts0

----------------------------------------------------------------------------
(* C2: the lines outside the block *)

\* a call has returned
CallReturned == Idle /\ call.op # "none"

\* C2 as stated: after any of the four operations on a file with a
\* well-formed block or no block, the lines before BEGIN and the lines after
\* END are those of before the operation.
C2_FrameUnchanged ==
    CallReturned =>
        LET before == View(hosts0)
        IN  (before.has_block \/ before.no_sentinels) => SameFrame(before, View(etc_hosts))

\* C2, amended: the lines outside the block are those of before the
\* operation, except that when the operation appends a block to a file that
\* had none, the last line of the file is given a line terminator if it had
\* none.
C2_FrameKept ==
    CallReturned =>
        LET before == View(hosts0)
            after  == View(etc_hosts)
        IN  (before.has_block \/ before.no_sentinels) =>
                IF before.no_sentinels /\ after.has_block
                THEN after.outside = Terminated(before.outside)
                ELSE SameFrame(before, after)

C2_Witness ==
    /\ Returned("upsert_entry")
    /\ call.replaces = 1
    /\ NoSentinels(hosts0)
    /\ ~EndsWithNewline(hosts0)
    /\ HasBlock(etc_hosts)
    /\ Outside(etc_hosts) # Outside(hosts0)

----------------------------------------------------------------------------
(* C3: a failed call and the table *)

\* C3: when upsert_entry or remove_unexpected_entries fails in the name
\* resolution, the validation of the file, the rendering, the ownership
\* change or the install, the file is unchanged and the table is what it was
\* before the call.
C3_FailureAtomic ==
    (/\ Idle
     /\ call.op \in {"upsert_entry", "remove_unexpected_entries"}
     /\ call.result \in {"gaierror", "OnlyBeginMarker", "OnlyEndMarker", "EndBeforeBegin",
                         "ValueError", "ChownError", "OSError"})
    => /\ etc_hosts = hosts0
       /\ entries = entries0

----------------------------------------------------------------------------
(* C4: the block of an empty table *)

\* a file the block can be written to and read back from: not empty and
\* without sentinel, or with a block whose lines all parse
SoundFile(content) ==
    \/ NoSentinels(content) /\ content # <<>>
    \/ HasBlock(content) /\ ParseLines(<<>>, EntryLinesOf(content)).error = "ok"

\* C4: a remove_unexpected_entries whose expected set excludes every hostname
\* of a non-empty table does not fail in the rendering of the block, and
\* when it completes the block in the file has no entry line.
C4_EmptyTableRenders ==
    (/\ Returned("remove_unexpected_entries")
     /\ entries0 # <<>>
     /\ Keys(entries0) \cap call.expected = {}
     /\ SoundFile(hosts0))
    => /\ call.result # "ValueError"
       /\ call.result = "ok" => (HasBlock(etc_hosts) /\ EntryLinesOf(etc_hosts) = <<>>)

----------------------------------------------------------------------------
(* C5: corrupt markers *)

\* the last call has read /etc/hosts
CallReadFile ==
    \/ call.op \in {"load_persisted_entries", "remove_redirector_block"}
    \/ call.op \in {"upsert_entry", "remove_unexpected_entries"} /\ call.upserts = 1

\* C5: on a file with only one kind of sentinel, or with BEGIN after END,
\* every call that reads the file fails with the matching marker error and
\* writes nothing: no temporary file, no replacement of /etc/hosts.
C5_CorruptMarkersReported ==
    CallReadFile =>
        LET before == View(hosts0)
        IN  (before.one_kind \/ before.misordered) =>
                /\ Idle
                /\ IF before.one_kind
                   THEN call.result \in {"OnlyBeginMarker", "OnlyEndMarker"}
                   ELSE call.result = "EndBeforeBegin"
                /\ call.replaces = 0
                /\ tmp = NoFile
                /\ etc_hosts = hosts0

C5_Witness ==
    /\ Returned("upsert_entry")
    /\ call.upserts = 1
    /\ Misordered(hosts0)
    /\ call.result = "EndBeforeBegin"
    /\ etc_hosts = hosts_init

----------------------------------------------------------------------------
(* C6: pruning *)

\* the entry lines of the file's block are those of the table, in its order
BlockShowsTable ==
    LET v  == View(etc_hosts)
        ls == v.entry_lines
    IN  /\ v.has_block
        /\ Len(ls) = Len(entries)
        /\ \A i \in 1..Len(ls) :
               ParseLine(ls[i]) = [matched |-> TRUE, ip |-> entries[i].ip,
                                   hostname |-> entries[i].hostname]

\* C6: after a successful remove_unexpected_entries(E) the table is the
\* previous table restricted to E, in the same order; if a hostname was
\* removed the block in the file has one line per remaining entry and no
\* other; if no hostname was removed neither the table nor the file is touched.
C6_PruneCorrect ==
    (Returned("remove_unexpected_entries") /\ call.result = "ok") =>
        /\ entries = Restrict(entries0, call.expected)
        /\ IF Keys(entries0) \subseteq call.expected
           THEN /\ call.upserts = 0
                /\ call.replaces = 0
                /\ entries = entries0
                /\ etc_hosts = hosts0
           ELSE /\ call.replaces = 1
                /\ BlockShowsTable
                /\ LET ls == EntryLinesOf(etc_hosts)
                   IN  \A i \in 1..Len(ls) : ParseLine(ls[i]).hostname \in call.expected

C6_Witness ==
    /\ Returned("remove_unexpected_entries")
    /\ call.result = "ok"
    /\ call.replaces = 1
    /\ Len(entries0) = 2
    /\ Len(entries) = 1
    /\ BlockShowsTable

----------------------------------------------------------------------------
(* C7: what is written is what is read back *)

\* C7: for every table, the empty one included, that upsert_entry or
\* remove_unexpected_entries sets out to write, the block is rendered and
\* installed, and load_persisted_entries on a fresh HostsManager then yields
\* that table: same hostnames, same IPs, same order.
C7_RoundTrip ==
    (/\ Idle
     /\ call.op \in {"upsert_entry", "remove_unexpected_entries"}
     /\ call.upserts = 1
     /\ SoundFile(hosts0)
     /\ call.result \notin {"ChownError", "OSError"})
    => /\ call.result = "ok"
       /\ load_entries(<<>>, etc_hosts) = [error |-> "ok", entries |-> entries]

----------------------------------------------------------------------------
(* C8: removing the block *)

\* the content c with a terminator after its last line if it had none
TerminatedContent(c) ==
    IF c = <<>> \/ EndsWithNewline(c) THEN c ELSE c \o <<"\n">>

\* C8 as stated, for a run of one upsert_entry followed by
\* remove_redirector_block: when the file had no sentinel at the start, its
\* content after the removal of the block is the initial content.
C8_ShutdownRestores ==
    (/\ Returned("remove_redirector_block")
     /\ call.result = "ok"
     /\ call.replaces = 1
     /\ calls = 2
     /\ NoSentinels(hosts_init))
    => etc_hosts = hosts_init

\* C8, amended: when the file had no sentinel at the start, its content
\* after a successful remove_redirector_block is the initial content, with a
\* line terminator added at its end if it had none and a block has been
\* written; and remove_redirector_block on a file without a block writes
\* nothing.
C8_ShutdownRestoresTerminated ==
    /\ (/\ Returned("remove_redirector_block")
        /\ call.result = "ok"
        /\ NoSentinels(hosts_init))
       => /\ etc_hosts \in {hosts_init, TerminatedContent(hosts_init)}
          /\ call.replaces = 1 => etc_hosts = TerminatedContent(hosts_init)
    /\ (call.op = "remove_redirector_block" /\ NoSentinels(hosts0))
       => /\ Idle
          /\ call.result = "ok"
          /\ call.replaces = 0
          /\ tmp = NoFile
          /\ etc_hosts = hosts0

C8_Witness ==
    /\ Returned("remove_redirector_block")
    /\ call.result = "ok"
    /\ call.replaces = 1
    /\ HasBlock(hosts0)
    /\ NoSentinels(hosts_init)
    /\ etc_hosts = hosts_init

----------------------------------------------------------------------------
(* C9: load_persisted_entries *)

\* a step that is a call of load_persisted_entries
C9_LoadStep ==
    (calls' = calls + 1 /\ call'.op = "load_persisted_entries") =>
        /\ etc_hosts' = etc_hosts
        /\ hosts_stat' = hosts_stat
        /\ tmp = NoFile /\ tmp' = NoFile
        /\ orphans' = orphans
        /\ pc' = "idle"
        /\ NoSentinels(etc_hosts) => (call'.result = "ok" /\ entries' = entries)

\* C9: load_persisted_entries never rewrites /etc/hosts (content, mode and
\* ownership stay, no temporary file is created), and on a file without a
\* block it returns without error and leaves the table as it was.
C9_LoadReadOnly == [][C9_LoadStep]_vars

C9_Witness ==
    /\ Returned("load_persisted_entries")
    /\ call.result = "ok"
    /\ NoSentinels(etc_hosts)
    /\ entries # <<>>
    /\ entries = entries0

----------------------------------------------------------------------------
(* C10: the install is atomic *)

\* what a reader of /etc/hosts sees during and after a call
C10_ReaderSees ==
    /\ pc # "idle" => etc_hosts = hosts0
    /\ call.replaces = 0 => etc_hosts = hosts0

\* the only step that changes /etc/hosts is the os.replace that ends the rewrite
C10_OneStep ==
    etc_hosts' # etc_hosts =>
        /\ pc = "replace"
        /\ pc' = "idle"
        /\ tmp.content = Concat(lines)
        /\ etc_hosts' = Concat(lines)

\* C10: at every step of a rewrite a reader of /etc/hosts sees the complete
\* previous content or the complete new content, and the content of
\* /etc/hosts changes in one step only, the final replace.
C10_AtomicInstall == []C10_ReaderSees /\ [][C10_OneStep]_vars

C10_Witness ==
    /\ pc = "replace"
    /\ tmp.content = Concat(lines)
    /\ tmp.content # etc_hosts
    /\ etc_hosts = hosts0

----------------------------------------------------------------------------
(* C11: a denied chown is reported and its temporary file discarded *)

\* the step in which os.chown is denied
C11_ChownDeniedStep ==
    (pc = "chown" /\ call'.result = "ChownError") =>
        /\ pc' = "idle"
        /\ etc_hosts' = etc_hosts
        /\ tmp' = NoFile
        /\ orphans' = orphans

\* C11: when the change of ownership of the temporary file is denied, the
\* rewrite fails with the ownership error, /etc/hosts is not replaced, and
\* the temporary file no longer exists when the error reaches the caller:
\* the number of temporary files left in /etc does not grow.
C11_ChownFailureCleansUp == [][C11_ChownDeniedStep]_vars

----------------------------------------------------------------------------
(* C12: an identical call after a failed write tries the write again *)

\* the last call failed in the write step of its rewrite
WriteFailed == Idle /\ call.result \in {"ChownError", "OSError"}

\* the step that enters a call with the arguments of the call before it
SameCallAgain ==
    /\ calls' = calls + 1
    /\ call'.op = call.op
    /\ call'.local_host = call.local_host
    /\ call'.backend_ip = call.backend_ip
    /\ call'.expected = call.expected

C12_RetryStep ==
    (/\ WriteFailed
     /\ call.op \in {"upsert_entry", "remove_unexpected_entries"}
     /\ SameCallAgain) =>
        /\ call'.upserts = 1
        /\ pc' = "mkstemp"

\* C12: when upsert_entry or remove_unexpected_entries has failed in the
\* write step of its rewrite, the next call with the same arguments attempts
\* the rewrite of the block again.
C12_RetryRewrites == [][C12_RetryStep]_vars

----------------------------------------------------------------------------
(* C13: the rewrite keeps the mode and the owner of /etc/hosts *)

\* the step of a rewrite that installs the new file
C13_ReplaceStep ==
    call'.replaces = call.replaces + 1 =>
        /\ hosts_stat' = hosts_stat
        /\ hosts_stat' = meta

\* C13: after every successful rewrite /etc/hosts has the permission bits,
\* the owner and the group it had immediately before the rewrite, and so has
\* them in every state of every sequence of rewrites.
C13_MetadataPreserved == [](hosts_stat = InitialStat) /\ [][C13_ReplaceStep]_vars

C13_Witness ==
    /\ Idle
    /\ call.replaces = 1
    /\ etc_hosts # hosts0
    /\ hosts_stat = InitialStat
    /\ orphans = 0

----------------------------------------------------------------------------
(* C14: the block appended to a file without sentinels, and its lines *)

\* the line of entry e in a block whose IP column has the given width
EntryLine(e, width) ==
    e.ip \o Spaces(width - Len(e.ip)) \o e.hostname \o <<"\n">>

\* the block of table d: BEGIN, one line per entry in the order of insertion,
\* the IP column as wide as the longest IP plus two, END
ExpectedBlock(d) ==
    LET width == Max({Len(d[i].ip) : i \in 1..Len(d)}) + 2
    IN  <<BEGIN_MARKER>> \o [i \in 1..Len(d) |-> EntryLine(d[i], width)] \o <<END_MARKER>>

\* the last call is an upsert_entry that changed the table, on a file without
\* sentinels, and no step of the write was refused by the system
UpsertOnPlainFile ==
    /\ Returned("upsert_entry")
    /\ call.upserts = 1
    /\ call.result \notin {"ChownError", "OSError"}
    /\ NoSentinels(hosts0)

\* C14: for every hosts file without sentinels, the empty file and the file
\* whose last line has no terminator included, an upsert_entry that changes
\* the table succeeds and leaves the original lines, the last one terminated,
\* followed by BEGIN, one line per entry of the table in insertion order, each
\* the IP left-justified to the longest IP plus two and then the hostname, and
\* END.
C14_BlockAppended ==
    UpsertOnPlainFile =>
        /\ call.result = "ok"
        /\ splitlines(etc_hosts) = Terminated(splitlines(hosts0)) \o ExpectedBlock(entries)

\* the same on the files that have at least one line
C14_BlockAppendedNonEmpty ==
    (UpsertOnPlainFile /\ hosts0 # <<>>) =>
        /\ call.result = "ok"
        /\ splitlines(etc_hosts) = Terminated(splitlines(hosts0)) \o ExpectedBlock(entries)

----------------------------------------------------------------------------
(* C15: the sentinels stay well formed *)

\* at most one BEGIN line and one END line, both or none, BEGIN first
WellFormed(v) == v.no_sentinels \/ v.has_block

\* C15: when /etc/hosts starts without sentinels, or with exactly one BEGIN
\* line before exactly one END line, then in every state of every sequence of
\* calls, successful or failed, it has no sentinel or exactly one BEGIN line
\* before exactly one END line.
C15_SentinelsWellFormed ==
    WellFormed(View(hosts_init)) =>
        \/ etc_hosts = hosts_init
        \/ WellFormed(View(etc_hosts))

C15_Witness ==
    /\ Idle
    /\ calls = MaxCalls
    /\ call.result \in {"ChownError", "OSError"}
    /\ LET v0 == View(hosts_init)
           v  == View(etc_hosts)
       IN  /\ v0.no_sentinels
           /\ v.has_block
           /\ Len(v.entry_lines) = 1

----------------------------------------------------------------------------
(* C17: the removal of the block leaves the table alone *)

\* during and after remove_redirector_block the table is the one of before
\* the call, and after a successful one the file has no sentinel
C17_TableKept ==
    call.op = "remove_redirector_block" =>
        /\ entries = entries0
        /\ (Idle /\ call.result = "ok") => NoSentinels(etc_hosts)

\* the step of an upsert_entry that follows a successful removal of the block
\* and resolves to the IP the table has for its hostname
C17_UpsertAfterRemovalStep ==
    (/\ Returned("remove_redirector_block")
     /\ call.result = "ok"
     /\ calls' = calls + 1
     /\ call'.op = "upsert_entry"
     /\ HasKey(entries, call'.local_host)
     /\ Get(entries, call'.local_host) = call'.backend_ip) =>
        /\ call'.upserts = 0
        /\ call'.result = "ok"
        /\ pc' = "idle"
        /\ entries' = entries
        /\ etc_hosts' = etc_hosts
        /\ tmp' = NoFile

\* C17: after a successful remove_redirector_block the table is exactly what
\* it was before the call, and an upsert_entry(h, addr) that follows and
\* resolves to the IP stored for h writes nothing: the file stays without
\* block.
C17_RemovalKeepsTable == []C17_TableKept /\ [][C17_UpsertAfterRemovalStep]_vars

C17_Witness ==
    /\ Returned("upsert_entry")
    /\ UpsertOfStoredIp
    /\ call.upserts = 0
    /\ HasBlock(hosts_init)
    /\ NoSentinels(etc_hosts)
    /\ etc_hosts = hosts0

----------------------------------------------------------------------------
(* C19: a block that does not parse *)

\* C19: when a line between the sentinels does not parse,
\* load_persisted_entries fails with the parse error and the table is the one
\* of before the call: no entry of the lines before the bad one is added.
C19_ParseFailureAdoptsNothing ==
    (Returned("load_persisted_entries") /\ call.result = "ParseError") =>
        entries = entries0

----------------------------------------------------------------------------
(* C16: the block and the table agree *)

\* C16: in every state between calls of a run that starts with
\* load_persisted_entries on a fresh engine and goes on with successful
\* upsert_entry and remove_unexpected_entries calls, a file whose content
\* differs from the initial one or that the last call has rewritten has a
\* block, and the entry lines of the block, parsed in order, are the table:
\* same hostnames, same IPs, same order.
C16_BlockAgreesWithTable ==
    (Idle /\ calls >= 1) =>
        /\ (etc_hosts # hosts_init \/ call.replaces = 1) => HasBlock(etc_hosts)
        /\ HasBlock(etc_hosts) => BlockShowsTable

C16_Witness ==
    /\ Idle
    /\ calls = MaxCalls
    /\ call.replaces = 1
    /\ Len(entries) = 2
    /\ entries[1].ip # entries[2].ip
    /\ BlockShowsTable

----------------------------------------------------------------------------
(* C18: the write of another process made during a rewrite is lost *)

\* the number of lines of the other process in a file
ExternalLines(content) ==
    LET ls == splitlines(content)
    IN  Cardinality({i \in 1..Len(ls) : ls[i] = ExternalLine})

\* what the current call computes from the file it read
ComputedContent ==
    IF call.op = "remove_redirector_block"
    THEN Concat(remove_block_lines(hosts0).final_lines)
    ELSE Concat(upsert_redirector_block(hosts0, entries).final_lines)

\* the os.replace of a rewrite during which another process wrote the file
C18_ReplaceStep ==
    (call'.replaces = call.replaces + 1 /\ etc_hosts # hosts0) =>
        /\ etc_hosts' = Concat(lines)
        /\ etc_hosts' = ComputedContent
        /\ ExternalLines(etc_hosts) > ExternalLines(hosts0)
        /\ ExternalLines(etc_hosts') = ExternalLines(hosts0)

\* C18: a change to /etc/hosts made by another process after the read of a
\* rewrite and before its os.replace is absent from the file after the
\* replace: the file is then exactly the content the engine computed from
\* what it had read.
C18_LostUpdate == [][C18_ReplaceStep]_vars

C18_Witness ==
    /\ Idle
    /\ calls = 1
    /\ edits = 1
    /\ call.replaces = 1
    /\ ExternalLines(etc_hosts) = 0
    /\ HasBlock(etc_hosts)

====
